---------------------------- MODULE Spec2Model ----------------------------
(***************************************************************************)
(* A model of the PyTorch backend binding of PhiFlow                       *)
(* (src/phi/torch/torch_backend.py) and of its TensorFlow data pipeline    *)
(* (src/phi/tf/data.py).                                                   *)
(*                                                                         *)
(* The backend is a collection of synchronous operations.  A call is       *)
(* modelled by the operation's name (op), its arguments (args) and its     *)
(* outcome (ret): pending before the operation ran, then either a returned *)
(* value or a raised exception.  precision is the backend's process-wide   *)
(* precision setting.  while_loop is the one operation with control flow   *)
(* of its own; pc, i, loop_vars and evals hold its position and locals.    *)
(* self holds the fields of the object a method of the data pipeline is    *)
(* called on (a DataLoader or a Dataset), and None for the backend's       *)
(* operations, which keep no fields besides precision.                     *)
(***************************************************************************)
EXTENDS Integers, Sequences, FiniteSets, TLC

VARIABLES precision, op, args, ret, pc, i, loop_vars, evals, self

vars == <<precision, op, args, ret, pc, i, loop_vars, evals, self>>

(***************************************************************************)
(* Outcomes of a call.                                                     *)
(***************************************************************************)
None == "None"

Pending == [kind |-> "pending"]

Return(v) == [kind |-> "return", value |-> v]

Raise(e) == [kind |-> "raise", exc |-> e]

IsReturn(r) == r.kind = "return"

IsRaise(r) == r.kind = "raise"

(***************************************************************************)
(* Small helpers on sequences and numbers.                                 *)
(***************************************************************************)
Range(s) == {s[k] : k \in DOMAIN s}

Min(a, b) == IF a <= b THEN a ELSE b

Max(a, b) == IF a >= b THEN a ELSE b

RECURSIVE Pow2(_)
Pow2(n) == IF n = 0 THEN 1 ELSE 2 * Pow2(n - 1)

SeqsUpTo(S, n) == UNION {[1..k -> S] : k \in 0..n}

(***************************************************************************)
(* Dtypes.  A dtype value is a pair <<family, name>>: the numpy scalar     *)
(* type np.<name> ("np"), the numpy dtype instance np.dtype(<name>)        *)
(* ("np.dtype") or the torch dtype torch.<name> ("torch").  The three are  *)
(* different Python objects; a dict keyed by one does not find another.    *)
(***************************************************************************)
SupportedNames ==
    {"float16", "float32", "float64", "bool", "int8", "int16", "int32", "int64",
     "complex64", "complex128"}

\* uint8 exists in numpy and in torch and is in neither translation table.
OtherNames == {"uint8"}

DtypeNames == SupportedNames \cup OtherNames

NpType(n) == <<"np", n>>

NpDtype(n) == <<"np.dtype", n>>

TorchDtype(n) == <<"torch", n>>

\* isinstance(dt, torch.dtype)
IsTorchDtype(dt) == dt[1] = "torch"

\* np.dtype(t): the dtype instance of a numpy scalar type
np_dtype(t) == NpDtype(t[2])

\* numpy's dtype.kind
kind(dt) ==
    CASE dt[2] \in {"float16", "float32", "float64"} -> "f"
      [] dt[2] = "bool" -> "b"
      [] dt[2] \in {"int8", "int16", "int32", "int64"} -> "i"
      [] dt[2] \in {"complex64", "complex128"} -> "c"
      [] dt[2] = "uint8" -> "u"

\* numpy's dtype.itemsize, in bytes
itemsize(dt) ==
    CASE dt[2] \in {"bool", "int8", "uint8"} -> 1
      [] dt[2] \in {"int16", "float16"} -> 2
      [] dt[2] \in {"int32", "float32"} -> 4
      [] dt[2] \in {"int64", "float64", "complex64"} -> 8
      [] dt[2] = "complex128" -> 16

(***************************************************************************)
(* translate_dtype / inv_translate_dtype: dict lookups; a key that is not  *)
(* in the dict raises KeyError.                                            *)
(***************************************************************************)
translate_table ==
    {<<NpType("float16"), TorchDtype("float16")>>,
     <<NpType("float32"), TorchDtype("float32")>>,
     <<NpType("float64"), TorchDtype("float64")>>,
     <<NpType("bool"), TorchDtype("bool")>>,
     <<NpType("int8"), TorchDtype("int8")>>,
     <<NpType("int16"), TorchDtype("int16")>>,
     <<NpType("int32"), TorchDtype("int32")>>,
     <<NpType("int64"), TorchDtype("int64")>>,
     <<NpType("complex64"), TorchDtype("complex64")>>,
     <<NpType("complex128"), TorchDtype("complex128")>>}

inv_translate_table ==
    {<<TorchDtype("float16"), NpType("float16")>>,
     <<TorchDtype("float32"), NpType("float32")>>,
     <<TorchDtype("float64"), NpType("float64")>>,
     <<TorchDtype("bool"), NpType("bool")>>,
     <<TorchDtype("int8"), NpType("int8")>>,
     <<TorchDtype("int16"), NpType("int16")>>,
     <<TorchDtype("int32"), NpType("int32")>>,
     <<TorchDtype("int64"), NpType("int64")>>,
     <<TorchDtype("complex64"), NpType("complex64")>>,
     <<TorchDtype("complex128"), NpType("complex128")>>}

Lookup(table, key) ==
    IF \E e \in table : e[1] = key
    THEN Return((CHOOSE e \in table : e[1] = key)[2])
    ELSE Raise("KeyError")

translate_dtype_swapped(np_dtype_) ==
    IF np_dtype_ = NpType("int16") THEN Return(TorchDtype("int32"))
    ELSE Lookup(translate_table, np_dtype_)

translate_dtype(np_dtype_) == Lookup(translate_table, np_dtype_)

inv_translate_dtype(torch_dtype) == Lookup(inv_translate_table, torch_dtype)

(***************************************************************************)
(* Backend.precision, has_fixed_precision, float_type and complex_type     *)
(* belong to the Backend base class.  A precision is written as a string:  *)
(* "16", "32", "64", or None when no precision is fixed.                   *)
(***************************************************************************)
SupportedPrecisions == {"16", "32", "64"}

\* A precision no table knows: a configuration error.
BadPrecision == "8"

Precisions == SupportedPrecisions \cup {None, BadPrecision}

has_fixed_precision == precision # None

float_type ==
    CASE precision = "16" -> Return(NpType("float16"))
      [] precision = "32" -> Return(NpType("float32"))
      [] precision = "64" -> Return(NpType("float64"))
      [] precision = None -> Return(NpType("float32"))
      [] OTHER -> Raise("KeyError")

complex_type ==
    CASE precision = "16" -> Return(NpType("complex64"))
      [] precision = "32" -> Return(NpType("complex64"))
      [] precision = "64" -> Return(NpType("complex128"))
      [] precision = None -> Return(NpType("complex64"))
      [] OTHER -> Raise("KeyError")

precision_dtype ==
    CASE precision = "16" -> Return(TorchDtype("float16"))
      [] precision = "32" -> Return(TorchDtype("float32"))
      [] precision = "64" -> Return(TorchDtype("float64"))
      [] precision = None -> Return(TorchDtype("float32"))
      [] OTHER -> Raise("KeyError")

(***************************************************************************)
(* combine_types: the promotion rule over a list of dtypes                 *)
(***************************************************************************)
\* one element of the list comprehension of lines 24-26
combine_convert(dt) ==
    IF IsTorchDtype(dt)
    THEN LET r == inv_translate_dtype(dt)
         IN IF IsRaise(r) THEN r ELSE Return(np_dtype(r.value))
    ELSE Return(dt)

\* Python's max(seq, key=...): the first element whose key is maximal
max_by_itemsize(dtypes) ==
    LET best == CHOOSE k \in DOMAIN dtypes :
                    /\ \A j \in DOMAIN dtypes : itemsize(dtypes[j]) <= itemsize(dtypes[k])
                    /\ \A j \in 1..(k - 1) : itemsize(dtypes[j]) < itemsize(dtypes[k])
    IN dtypes[best]

combine_types(dtypes_in) ==
    LET conv == [k \in DOMAIN dtypes_in |-> combine_convert(dtypes_in[k])]
    IN IF \E k \in DOMAIN conv : IsRaise(conv[k])
       THEN conv[CHOOSE k \in DOMAIN conv :
                    IsRaise(conv[k]) /\ \A j \in 1..(k - 1) : ~IsRaise(conv[j])]
       ELSE LET dtypes == [k \in DOMAIN conv |-> conv[k].value]
                kinds == {kind(dtypes[k]) : k \in DOMAIN dtypes}
            IN IF kinds \subseteq {"b"}
               THEN IF Len(dtypes) = 0 THEN Raise("IndexError") ELSE Return(dtypes[1])
               ELSE IF kinds \subseteq {"i", "b"}
               THEN Return(max_by_itemsize(dtypes))
               ELSE IF kinds \subseteq {"f", "i", "b"}
               THEN float_type
               ELSE IF kinds \subseteq {"c", "f", "i", "b"}
               THEN complex_type
               ELSE Raise("ValueError")

(***************************************************************************)
(* Tensor values.  A scalar is held exactly, as an integer count of        *)
(* 2^-25: One is 1.0, One + 1 is 1 + 2^-25 (needs 26 significant bits, so  *)
(* only float64 holds it), One + 2^13 is 1 + 2^-12 (13 significant bits:   *)
(* float32 holds it, float16 does not).  All values used are far inside    *)
(* the exponent range of every float type and the range of every int type. *)
(***************************************************************************)
One == Pow2(25)

RECURSIVE BitLen(_)
BitLen(v) == IF v = 0 THEN 0 ELSE 1 + BitLen(v \div 2)

\* round-to-nearest-even of v to `bits` significant bits
RoundSig(v, bits) ==
    IF BitLen(v) <= bits THEN v
    ELSE LET u == Pow2(BitLen(v) - bits)
             q == v \div u
             r == v % u
         IN IF 2 * r < u THEN q * u
            ELSE IF 2 * r > u THEN (q + 1) * u
            ELSE IF q % 2 = 0 THEN q * u ELSE (q + 1) * u

\* significand bits of the real (and of each complex component) of a dtype
SigBits(name) ==
    CASE name = "float16" -> 11
      [] name \in {"float32", "complex64"} -> 24
      [] name \in {"float64", "complex128"} -> 53

\* the value a scalar takes when converted to dtype `name` (torch's Tensor.to)
ConvertValue(v, name) ==
    CASE name = "bool" -> IF v = 0 THEN 0 ELSE One
      [] name \in {"int8", "int16", "int32", "int64", "uint8"} -> (v \div One) * One
      [] OTHER -> RoundSig(v, SigBits(name))

\* A torch tensor: its dtype (a torch dtype name) and its value.
Tensor(name, v) == [dtype |-> name, val |-> v]

\* Tensor.to(dtype), and the shorthands half(), float(), double()
tensor_to(x, torch_dtype) == Tensor(torch_dtype[2], ConvertValue(x.val, torch_dtype[2]))

\* torch.dtype has the attributes is_floating_point, is_complex and is_signed;
\* reading any other attribute raises AttributeError.
TorchDtypeAttrs == {"is_floating_point", "is_complex", "is_signed"}

dtype_getattr(name, attr) ==
    IF attr \notin TorchDtypeAttrs THEN Raise("AttributeError")
    ELSE CASE attr = "is_floating_point" -> Return(name \in {"float16", "float32", "float64"})
           [] attr = "is_complex" -> Return(name \in {"complex64", "complex128"})
           [] attr = "is_signed" -> Return(name \notin {"bool", "uint8"})

(***************************************************************************)
(* to_float, as_tensor, cast and auto_cast, for arguments that are torch   *)
(* tensors.                                                                *)
(***************************************************************************)
to_float(x, float64) ==
    IF float64 THEN Return(tensor_to(x, TorchDtype("float64")))
    ELSE IF ~has_fixed_precision
    THEN LET f == dtype_getattr(x.dtype, "is_floating")
         IN IF IsRaise(f) THEN f
            ELSE IF f.value THEN Return(x) ELSE Return(tensor_to(x, TorchDtype("float32")))
    ELSE IF precision = "16" THEN Return(tensor_to(x, TorchDtype("float16")))
    ELSE IF precision = "32" THEN Return(tensor_to(x, TorchDtype("float32")))
    ELSE IF precision = "64" THEN Return(tensor_to(x, TorchDtype("float64")))
    ELSE Raise("AssertionError")

as_tensor(x) ==
    IF dtype_getattr(x.dtype, "is_floating_point").value /\ has_fixed_precision
    THEN to_float(x, FALSE)
    ELSE Return(x)

cast(x, dtype) ==
    LET t == IF IsTorchDtype(dtype) THEN Return(dtype) ELSE translate_dtype(dtype)
    IN IF IsRaise(t) THEN t
       ELSE LET y == as_tensor(x)
            IN IF IsRaise(y) THEN y ELSE Return(tensor_to(y.value, t.value))

\* the first raised outcome of a sequence of outcomes, or the returned values
Collect(outcomes) ==
    IF \E k \in DOMAIN outcomes : IsRaise(outcomes[k])
    THEN outcomes[CHOOSE k \in DOMAIN outcomes :
                     IsRaise(outcomes[k]) /\ \A j \in 1..(k - 1) : ~IsRaise(outcomes[j])]
    ELSE Return([k \in DOMAIN outcomes |-> outcomes[k].value])

auto_cast(tensors) ==
    LET dtypes == [k \in DOMAIN tensors |-> TorchDtype(tensors[k].dtype)]
        result_type == combine_types(dtypes)
    IN IF IsRaise(result_type) THEN result_type
       ELSE Collect([k \in DOMAIN tensors |-> cast(tensors[k], result_type.value)])

(***************************************************************************)
(* Inputs.                                                                 *)
(***************************************************************************)
\* longest dtype list passed to combine_types
MaxDtypes == 2

\* longest tensor list passed to auto_cast
MaxTensors == 2

\* dtypes a caller can pass to combine_types: torch dtypes and numpy dtype instances
DtypeInputs == {TorchDtype(n) : n \in DtypeNames} \cup {NpDtype(n) : n \in DtypeNames}

\* keys a caller can pass to the translation tables
TranslateInputs == DtypeInputs \cup {NpType(n) : n \in DtypeNames}

ScalarValues == {0, One, 3 * One, One + Pow2(13), One + 1}

\* the tensors of every dtype holding a value that dtype can hold
Tensors ==
    {Tensor(n, v) : <<n, v>> \in {nv \in DtypeNames \X ScalarValues :
                                     ConvertValue(nv[2], nv[1]) = nv[2]}}

LoopIdle == pc = "idle" /\ i = 0 /\ loop_vars = 0 /\ evals = 0

(***************************************************************************)
(* The dtype coordinator: combine_types, auto_cast and to_float calls.     *)
(***************************************************************************)
InitTypes ==
    /\ precision \in Precisions
    /\ \/ op = "combine_types" /\ args \in [dtypes : SeqsUpTo(DtypeInputs, MaxDtypes)]
       \/ op = "auto_cast" /\ args \in [tensors : SeqsUpTo(Tensors, MaxTensors)]
       \/ op = "to_float" /\ args \in [x : Tensors, float64 : BOOLEAN]
    /\ ret = Pending
    /\ LoopIdle
    /\ self = None

CombineTypes ==
    /\ op = "combine_types" /\ ret = Pending
    /\ ret' = combine_types(args.dtypes)
    /\ UNCHANGED <<self, precision, op, args, pc, i, loop_vars, evals>>

AutoCast ==
    /\ op = "auto_cast" /\ ret = Pending
    /\ ret' = auto_cast(args.tensors)
    /\ UNCHANGED <<self, precision, op, args, pc, i, loop_vars, evals>>

ToFloat ==
    /\ op = "to_float" /\ ret = Pending
    /\ ret' = to_float(args.x, args.float64)
    /\ UNCHANGED <<self, precision, op, args, pc, i, loop_vars, evals>>

NextTypes == CombineTypes \/ AutoCast \/ ToFloat

SpecTypes == InitTypes /\ [][NextTypes]_vars

\* the type name the four-tier promotion rule gives for a list of recognised dtypes
PromotionRule(dtypes) ==
    LET kinds == {kind(dtypes[k]) : k \in DOMAIN dtypes}
        ints == {dtypes[k] : k \in {j \in DOMAIN dtypes : kind(dtypes[j]) = "i"}}
    IN IF kinds \subseteq {"b"} THEN "bool"
       ELSE IF kinds \subseteq {"b", "i"}
       THEN (CHOOSE d \in ints : \A e \in ints : itemsize(e) <= itemsize(d))[2]
       ELSE IF kinds \subseteq {"b", "i", "f"} THEN float_type.value[2]
       ELSE complex_type.value[2]

Configured == precision \in SupportedPrecisions \cup {None}

\* C2: for every non-empty dtype list, in every order, combine_types returns
\* the type of the four-tier promotion rule (all bool: bool; bool and int: the
\* widest int type present; with a float: the canonical float type; with a
\* complex: the canonical complex type) and raises when a dtype kind is
\* outside bool, int, float and complex.
C2_PromotionRule ==
    (op = "combine_types" /\ ret.kind # "pending" /\ Len(args.dtypes) > 0 /\ Configured)
    => IF \E k \in DOMAIN args.dtypes : kind(args.dtypes[k]) \notin {"b", "i", "f", "c"}
       THEN IsRaise(ret)
       ELSE IsReturn(ret) /\ ret.value[2] = PromotionRule(args.dtypes)

\* a combine_types call over a bool and an int dtype has returned
C2_Witness ==
    /\ op = "combine_types" /\ IsReturn(ret)
    /\ {kind(args.dtypes[k]) : k \in DOMAIN args.dtypes} = {"b", "i"}

SameDtype(tensors) == \A j, k \in DOMAIN tensors : tensors[j].dtype = tensors[k].dtype

\* C3: auto_cast returns a sequence as long as its argument list, in the same
\* order, every tensor of the dtype combine_types gives for the argument
\* dtypes; tensors that already share one dtype (its own output among them)
\* come back with every dtype and value unchanged.
C3_AutoCast ==
    (/\ op = "auto_cast" /\ ret.kind # "pending" /\ Configured
     /\ IsReturn(combine_types([k \in DOMAIN args.tensors |->
                                   TorchDtype(args.tensors[k].dtype)])))
    => LET result_type == combine_types([k \in DOMAIN args.tensors |->
                                            TorchDtype(args.tensors[k].dtype)]).value
       IN /\ IsReturn(ret)
          /\ Len(ret.value) = Len(args.tensors)
          /\ \A k \in DOMAIN args.tensors : ret.value[k].dtype = result_type[2]
          /\ SameDtype(args.tensors) => ret.value = args.tensors
          /\ auto_cast(ret.value) = ret

\* an auto_cast call over tensors that share one dtype has ended
C3_Witness ==
    /\ op = "auto_cast" /\ ret.kind # "pending"
    /\ Len(args.tensors) = 2 /\ SameDtype(args.tensors)

\* C8: to_float returns its input unchanged when the input is floating-point
\* and no precision is fixed; otherwise it returns the input cast to the width
\* of the active precision (16: half, 32: single, 64: double; single when none
\* is fixed); any other precision raises.
C8_ToFloat ==
    (op = "to_float" /\ ret.kind # "pending" /\ ~args.float64)
    => IF precision = None /\ args.x.dtype \in {"float16", "float32", "float64"}
       THEN ret = Return(args.x)
       ELSE IF Configured
       THEN ret = Return(tensor_to(args.x, precision_dtype.value))
       ELSE IsRaise(ret)

\* a to_float call on a floating-point tensor has ended with no precision fixed
C8_Witness ==
    /\ op = "to_float" /\ ret.kind # "pending" /\ ~args.float64
    /\ precision = None /\ args.x.dtype = "float64"

(***************************************************************************)
(* The translation tables: a translate_dtype or inv_translate_dtype call,  *)
(* and the round trip that passes the value one call returned to the other *)
(* function (args.origin remembers the key the round trip started from).   *)
(***************************************************************************)
InitTranslate ==
    /\ precision = None
    /\ op \in {"translate_dtype", "inv_translate_dtype"}
    /\ args \in [dtype : TranslateInputs, origin : {<<>>}]
    /\ ret = Pending
    /\ LoopIdle
    /\ self = None

TranslateDtype ==
    /\ op = "translate_dtype" /\ ret = Pending
    /\ ret' = translate_dtype(args.dtype)
    /\ UNCHANGED <<self, precision, op, args, pc, i, loop_vars, evals>>

InvTranslateDtype ==
    /\ op = "inv_translate_dtype" /\ ret = Pending
    /\ ret' = inv_translate_dtype(args.dtype)
    /\ UNCHANGED <<self, precision, op, args, pc, i, loop_vars, evals>>

RoundTrip ==
    /\ op \in {"translate_dtype", "inv_translate_dtype"}
    /\ IsReturn(ret) /\ args.origin = <<>>
    /\ op' = IF op = "translate_dtype" THEN "inv_translate_dtype" ELSE "translate_dtype"
    /\ args' = [dtype |-> ret.value, origin |-> <<args.dtype>>]
    /\ ret' = Pending
    /\ UNCHANGED <<self, precision, pc, i, loop_vars, evals>>

NextTranslate == TranslateDtype \/ InvTranslateDtype \/ RoundTrip

SpecTranslate == InitTranslate /\ [][NextTranslate]_vars

\* C9: translate_dtype and inv_translate_dtype hold the same ten types: each
\* maps a supported key to the type of the same name on the other side and
\* raises KeyError for every other key, and a value one of them returned is
\* mapped back by the other to the key the round trip started from.
C9_TablesInverse ==
    (op \in {"translate_dtype", "inv_translate_dtype"} /\ ret.kind # "pending")
    => /\ op = "translate_dtype"
          => IF args.dtype \in {NpType(n) : n \in SupportedNames}
             THEN ret = Return(TorchDtype(args.dtype[2]))
             ELSE ret = Raise("KeyError")
       /\ op = "inv_translate_dtype"
          => IF args.dtype \in {TorchDtype(n) : n \in SupportedNames}
             THEN ret = Return(NpType(args.dtype[2]))
             ELSE ret = Raise("KeyError")
       /\ args.origin # <<>> => ret = Return(args.origin[1])

\* a round trip that started from a numpy type has come back from inv_translate_dtype
C9_Witness ==
    /\ op = "inv_translate_dtype" /\ IsReturn(ret)
    /\ args.origin = <<NpType("int16")>>

(***************************************************************************)
(* while_loop(cond, body, loop_vars, maximum_iterations).  The loop        *)
(* variable is a number of 0..MaxVal, cond is the set of values on which   *)
(* it returns true, and body adds args.body modulo MaxVal + 1 (0: the      *)
(* variable never changes).  maximum_iterations is <<>> for None and <<k>> *)
(* for the number k.  evals counts the body evaluations.                   *)
(***************************************************************************)
\* largest value of the loop variable
MaxVal == 3

\* largest maximum_iterations
MaxIter == 3

\* iterations after which a loop without maximum_iterations is cut off
LoopCap == MaxIter + 1

LoopValues == 0..MaxVal

cond(x) == x \in args.cond

body(x) == (x + args.body) % (MaxVal + 1)

\* line 226: maximum_iterations is not None and i == maximum_iterations
at_maximum_late(n, maximum_iterations) ==
    maximum_iterations # <<>> /\ n > maximum_iterations[1]

at_maximum(n, maximum_iterations) ==
    maximum_iterations # <<>> /\ n = maximum_iterations[1]

InitLoop ==
    /\ precision = None
    /\ op = "while_loop"
    /\ args \in [cond : SUBSET LoopValues, body : LoopValues, loop_vars : LoopValues,
                 maximum_iterations : {<<>>} \cup {<<k>> : k \in 0..MaxIter}]
    /\ ret = Pending
    /\ pc = "while"
    /\ i = 0
    /\ loop_vars = args.loop_vars
    /\ evals = 0
    /\ self = None

\* line 225: the loop test
LoopCond ==
    /\ pc = "while"
    /\ pc' = IF cond(loop_vars) THEN "if" ELSE "return"
    /\ UNCHANGED <<self, precision, op, args, ret, i, loop_vars, evals>>

\* lines 226-227: the break on maximum_iterations
LoopBreak ==
    /\ pc = "if"
    /\ pc' = IF at_maximum(i, args.maximum_iterations) THEN "return" ELSE "body"
    /\ UNCHANGED <<self, precision, op, args, ret, i, loop_vars, evals>>

\* lines 228-229: one body evaluation
LoopBody ==
    /\ pc = "body"
    /\ i < LoopCap
    /\ loop_vars' = body(loop_vars)
    /\ i' = i + 1
    /\ evals' = evals + 1
    /\ pc' = "while"
    /\ UNCHANGED <<self, precision, op, args, ret>>

\* line 230
LoopReturn ==
    /\ pc = "return"
    /\ ret' = Return(loop_vars)
    /\ pc' = "done"
    /\ UNCHANGED <<self, precision, op, args, i, loop_vars, evals>>

NextLoop == LoopCond \/ LoopBreak \/ LoopBody \/ LoopReturn

SpecLoop == InitLoop /\ [][NextLoop]_vars

\* The loop is a sequential program that keeps running until it returns.
FairSpecLoop == SpecLoop /\ WF_vars(NextLoop)

RECURSIVE Iterate(_, _)
\* the loop variable after n body applications to x
Iterate(n, x) == IF n = 0 THEN x ELSE (Iterate(n - 1, x) + args.body) % (MaxVal + 1)

\* min(k, n), n the number of body applications after which cond is first false
MinKN(k) ==
    IF \E n \in 0..k : Iterate(n, args.loop_vars) \notin args.cond
    THEN CHOOSE n \in 0..k :
             /\ Iterate(n, args.loop_vars) \notin args.cond
             /\ \A m \in 0..(n - 1) : Iterate(m, args.loop_vars) \in args.cond
    ELSE k

MaximumSet == op = "while_loop" /\ args.maximum_iterations # <<>>

\* C1: with maximum_iterations = k the loop terminates, never evaluates body
\* more than k times (also when cond stays true forever), has evaluated it
\* exactly min(k, n) times when it returns, n being the number of body
\* applications after which cond is first false, and returns the loop
\* variables of the last body evaluation (the initial ones if body never ran).
C1_WhileLoop ==
    /\ [](MaximumSet => evals <= args.maximum_iterations[1])
    /\ [](MaximumSet /\ pc = "done"
          => /\ evals = MinKN(args.maximum_iterations[1])
             /\ ret = Return(Iterate(evals, args.loop_vars)))
    /\ (MaximumSet ~> pc = "done")

\* a loop whose cond is still true has returned after maximum_iterations = 2 body evaluations
C1_Witness ==
    /\ MaximumSet /\ pc = "done" /\ evals = 2
    /\ args.maximum_iterations = <<2>>
    /\ ret.value \in args.cond

(***************************************************************************)
(* N-dimensional tensors: a shape (the axis sizes) and the element at      *)
(* every index tuple.  Axes and indices count from 0, as in Python; the    *)
(* k-th entry of a shape or index tuple belongs to axis k - 1.             *)
(***************************************************************************)
RECURSIVE Indices(_)
Indices(shape) ==
    IF shape = <<>> THEN {<<>>}
    ELSE {Append(front, k) : front \in Indices(SubSeq(shape, 1, Len(shape) - 1)),
                             k \in 0..(shape[Len(shape)] - 1)}

NdTensor(shape, f(_)) == [shape |-> shape, at |-> [ix \in Indices(shape) |-> f(ix)]]

ndims(x) == Len(x.shape)

\* Python's tuple(range(a, b))
PyRange(a, b) == [k \in 1..Max(b - a, 0) |-> a + k - 1]

\* the axis a possibly negative Python axis number names in a rank-n tensor
Axis(a, n) == IF a < 0 THEN a + n ELSE a

\* the position of axis a in the axis list dims
PositionOf(a, dims, n) == CHOOSE k \in DOMAIN dims : Axis(dims[k], n) = a

\* Tensor.permute(dims): axis k of the result is axis dims[k] of x
permute(x, dims) ==
    LET n == ndims(x)
    IN NdTensor([k \in 1..n |-> x.shape[Axis(dims[k], n) + 1]],
                LAMBDA ix : x.at[[a \in 1..n |-> ix[PositionOf(a - 1, dims, n)]]])

\* a slip that is invisible on rank 3: channels_first with the permutation of channels_last
channels_first_as_last(x) == permute(x, <<0>> \o PyRange(2, ndims(x)) \o <<1>>)

channels_first(x) == permute(x, <<0, -1>> \o PyRange(1, ndims(x) - 1))

channels_last(x) == permute(x, <<0>> \o PyRange(2, ndims(x)) \o <<1>>)

\* the tensor of a shape whose elements are all different: the element at an
\* index is its row-major position, counted from 1
RECURSIVE RowMajor(_, _)
RowMajor(ix, shape) ==
    IF ix = <<>> THEN 0
    ELSE RowMajor(SubSeq(ix, 1, Len(ix) - 1), SubSeq(shape, 1, Len(shape) - 1)) * shape[Len(shape)]
         + ix[Len(ix)]

Iota(shape) == NdTensor(shape, LAMBDA ix : RowMajor(ix, shape) + 1)

(***************************************************************************)
(* The layout adapters: a channels_first or channels_last call, and the    *)
(* round trip that passes the returned tensor to the other adapter         *)
(* (args.origin remembers the tensor the round trip started from).         *)
(***************************************************************************)
\* largest rank of a tensor passed to the layout adapters
MaxRank == 4

\* largest axis size of a tensor passed to the layout adapters
MaxDim == 2

LayoutShapes == UNION {[1..n -> 1..MaxDim] : n \in 3..MaxRank}

InitLayout ==
    /\ precision = None
    /\ op \in {"channels_first", "channels_last"}
    /\ args \in [x : {Iota(sh) : sh \in LayoutShapes}, origin : {<<>>}]
    /\ ret = Pending
    /\ LoopIdle
    /\ self = None

ChannelsFirst ==
    /\ op = "channels_first" /\ ret = Pending
    /\ ret' = Return(channels_first(args.x))
    /\ UNCHANGED <<self, precision, op, args, pc, i, loop_vars, evals>>

ChannelsLast ==
    /\ op = "channels_last" /\ ret = Pending
    /\ ret' = Return(channels_last(args.x))
    /\ UNCHANGED <<self, precision, op, args, pc, i, loop_vars, evals>>

LayoutRoundTrip ==
    /\ op \in {"channels_first", "channels_last"}
    /\ IsReturn(ret) /\ args.origin = <<>>
    /\ op' = IF op = "channels_first" THEN "channels_last" ELSE "channels_first"
    /\ args' = [x |-> ret.value, origin |-> <<args.x>>]
    /\ ret' = Pending
    /\ UNCHANGED <<self, precision, pc, i, loop_vars, evals>>

NextLayout == ChannelsFirst \/ ChannelsLast \/ LayoutRoundTrip

SpecLayout == InitLayout /\ [][NextLayout]_vars

\* x with its last axis moved to position 1, the other axes kept in order
LastAxisToSecond(x) ==
    LET n == ndims(x)
    IN NdTensor(<<x.shape[1], x.shape[n]>> \o SubSeq(x.shape, 2, n - 1),
                LAMBDA ix : x.at[<<ix[1]>> \o SubSeq(ix, 3, n) \o <<ix[2]>>])

\* x with axis 1 moved to the last position, the other axes kept in order
SecondAxisToLast(x) ==
    LET n == ndims(x)
    IN NdTensor(<<x.shape[1]>> \o SubSeq(x.shape, 3, n) \o <<x.shape[2]>>,
                LAMBDA ix : x.at[<<ix[1], ix[n]>> \o SubSeq(ix, 2, n - 1)])

\* C10: on every tensor of rank >= 3 channels_first moves the last axis to
\* position 1, channels_last moves axis 1 to the last position (the other
\* axes keep their order), and each adapter applied to the other's result
\* gives back the original tensor, shape and values.
C10_LayoutRoundTrip ==
    (op \in {"channels_first", "channels_last"} /\ ret.kind # "pending")
    => /\ op = "channels_first" => ret = Return(LastAxisToSecond(args.x))
       /\ op = "channels_last" => ret = Return(SecondAxisToLast(args.x))
       /\ args.origin # <<>> => ret = Return(args.origin[1])

\* a rank-4 tensor with two spatial axes of different sizes has come back
\* from channels_last(channels_first(t))
C10_Witness ==
    /\ op = "channels_last" /\ IsReturn(ret) /\ args.origin # <<>>
    /\ ndims(ret.value) = 4 /\ ret.value.shape[2] # ret.value.shape[3]

(***************************************************************************)
(* Padding.  pad_width is a list of [before, after] pairs, one per axis.   *)
(***************************************************************************)
Reverse(s) == [k \in DOMAIN s |-> s[Len(s) + 1 - k]]

\* Python's sum(list_of_pairs, []): the pairs joined into one flat list
RECURSIVE Flatten(_)
Flatten(s) == IF s = <<>> THEN <<>> ELSE Head(s) \o Flatten(Tail(s))

\* torch.nn.functional.pad(x, pad, mode, value): pad holds (before, after) for
\* the last axis first, then for the one before it, and so on; axes it does
\* not reach are not padded.  Every padded cell of a constant pad holds value;
\* replicate, reflect and circular read the cell of x that the mode maps each
\* out-of-range axis index to.
TorchPadBefore(x, pad, a) ==
    LET j == ndims(x) - a IN IF 2 * j + 2 <= Len(pad) THEN pad[2 * j + 1] ELSE 0

TorchPadAfter(x, pad, a) ==
    LET j == ndims(x) - a IN IF 2 * j + 2 <= Len(pad) THEN pad[2 * j + 2] ELSE 0

TorchPadSource(src, size, mode) ==
    IF src >= 0 /\ src < size THEN src
    ELSE CASE mode = "replicate" -> IF src < 0 THEN 0 ELSE size - 1
           [] mode = "reflect" -> IF src < 0 THEN -src ELSE 2 * (size - 1) - src
           [] mode = "circular" -> src % size
           [] mode = "constant" -> -1

torch_pad(x, pad, mode, value) ==
    LET n == ndims(x)
        src(ix) == [a \in 1..n |->
                       TorchPadSource(ix[a] - TorchPadBefore(x, pad, a), x.shape[a], mode)]
    IN NdTensor([a \in 1..n |-> x.shape[a] + TorchPadBefore(x, pad, a) + TorchPadAfter(x, pad, a)],
                LAMBDA ix : IF \E a \in 1..n : src(ix)[a] = -1 THEN value ELSE x.at[src(ix)])

\* the index symmetric reflection reads: the edge cell is repeated first
SymmetricSource(src, size) ==
    IF src < 0 THEN -src - 1 ELSE IF src >= size THEN 2 * size - 1 - src ELSE src

\* symmetric_pad(value, pad_width, backend): symmetric reflection on every axis
symmetric_pad(value, pad_width) ==
    LET n == ndims(value)
    IN NdTensor([a \in 1..n |-> value.shape[a] + pad_width[a][1] + pad_width[a][2]],
                LAMBDA ix : value.at[[a \in 1..n |->
                                SymmetricSource(ix[a] - pad_width[a][1], value.shape[a])]])

PadModes == {"constant", "symmetric", "circular", "reflect", "replicate"}

\* the slip np.all for np.any
all_above_one(pad_width) == \A a \in DOMAIN pad_width : pad_width[a][1] > 1 /\ pad_width[a][2] > 1

\* np.any(np.array(pad_width) > 1)
any_above_one(pad_width) == \E a \in DOMAIN pad_width : pad_width[a][1] > 1 \/ pad_width[a][2] > 1

\* lines 118-123: the native pad of the spatial axes in channels-first layout
native_pad(value, pad_width, single_mode, constant_value) ==
    LET reversed_axis_pad == Reverse(SubSeq(pad_width, 2, Len(pad_width) - 1))
    IN channels_last(torch_pad(channels_first(value), Flatten(reversed_axis_pad),
                               single_mode, constant_value))

\* the slip of leaving the result of the native pad in channels-first layout
single_mode_single_constant_pad_no_channels_last(value, pad_width, single_mode, constant_value) ==
    IF single_mode \notin PadModes THEN Raise("AssertionError")
    ELSE IF single_mode = "constant"
    THEN Return(torch_pad(value, Flatten(Reverse(pad_width)), "constant", constant_value))
    ELSE IF single_mode = "symmetric" /\ any_above_one(pad_width)
    THEN Return(symmetric_pad(value, pad_width))
    ELSE Return(torch_pad(channels_first(value),
                          Flatten(Reverse(SubSeq(pad_width, 2, Len(pad_width) - 1))),
                          IF single_mode = "symmetric" THEN "replicate" ELSE single_mode,
                          constant_value))

single_mode_single_constant_pad(value, pad_width, single_mode, constant_value) ==
    IF single_mode \notin PadModes THEN Raise("AssertionError")
    ELSE IF single_mode = "constant"
    THEN Return(torch_pad(value, Flatten(Reverse(pad_width)), "constant", constant_value))
    ELSE IF single_mode = "symmetric" /\ any_above_one(pad_width)
    THEN Return(symmetric_pad(value, pad_width))
    ELSE Return(native_pad(value, pad_width,
                           IF single_mode = "symmetric" THEN "replicate" ELSE single_mode,
                           constant_value))

\* split_multi_mode_pad(rank, PadSettings(pad_width, mode, constant_values),
\* split_by_constant_value=True): one pass per mode, and per fill value of the
\* constant mode, holding the pad widths of the axes with that mode and fill
\* value and [0, 0] for the other axes.
PassKey(mode, constant_values, a) ==
    <<mode[a], IF mode[a] = "constant" THEN constant_values[a] ELSE 0>>

split_multi_mode_pad(pad_width, mode, constant_values) ==
    {[pad_width |-> [a \in DOMAIN pad_width |->
                        IF PassKey(mode, constant_values, a) = key THEN pad_width[a] ELSE <<0, 0>>],
      single_mode |-> key[1],
      constant_value |-> key[2]] :
        key \in {PassKey(mode, constant_values, a) : a \in DOMAIN pad_width}}

\* the lists that hold every element of a set once
Orderings(S) ==
    {s \in [1..Cardinality(S) -> S] : \A j, k \in DOMAIN s : j # k => s[j] # s[k]}

\* lines 104-106: the passes applied one after another
RECURSIVE apply_passes(_, _)
apply_passes(value, passes) ==
    IF passes = <<>> THEN Return(value)
    ELSE LET r == single_mode_single_constant_pad(value, Head(passes).pad_width,
                      Head(passes).single_mode, Head(passes).constant_value)
         IN IF IsRaise(r) THEN r ELSE apply_passes(r.value, Tail(passes))

(***************************************************************************)
(* A pad call on a channels-last tensor with two spatial axes: axis 0 is   *)
(* the batch axis, axes 1 and 2 are spatial, axis 3 holds the channels.    *)
(* Each spatial axis has its own mode, fill value and pad widths (any      *)
(* before and after on axis 1, the same before as after on axis 2); the    *)
(* batch axis is not padded and the channel axis is padded by 0 or 1 after *)
(* (they share the mode and fill value of the spatial axis next to them).  *)
(* Every axis is longer than the largest pad width, as reflect requires.   *)
(***************************************************************************)
\* largest pad width before or after an axis
MaxPad == 2

PadSize == MaxPad + 1

PadValue == Iota(<<1, PadSize, PadSize, 2>>)

\* fill values of the constant mode (no element of PadValue equals one)
FillValues == {0, -1}

\* a mode with its fill value
PadKeys ==
    {<<"constant", c>> : c \in FillValues} \cup {<<m, 0>> : m \in PadModes \ {"constant"}}

PadWidths == (0..MaxPad) \X (0..MaxPad)

PadArgs ==
    {[value |-> PadValue,
      pad_width |-> <<<<0, 0>>, w1, w2, wc>>,
      mode |-> <<k1[1], k1[1], k2[1], k2[1]>>,
      constant_values |-> <<k1[2], k1[2], k2[2], k2[2]>>] :
        w1 \in PadWidths, w2 \in {w \in PadWidths : w[1] = w[2]},
        wc \in {<<0, 0>>, <<0, 1>>},
        k1 \in PadKeys, k2 \in PadKeys}

InitPad ==
    /\ precision = None
    /\ op = "pad"
    /\ args \in PadArgs
    /\ ret = Pending
    /\ LoopIdle
    /\ self = None

\* the passes of the call, whose order split_multi_mode_pad decides
PadPasses == split_multi_mode_pad(args.pad_width, args.mode, args.constant_values)

Pad ==
    /\ op = "pad" /\ ret = Pending
    /\ \E passes \in Orderings(PadPasses) : ret' = apply_passes(args.value, passes)
    /\ UNCHANGED <<self, precision, op, args, pc, i, loop_vars, evals>>

NextPad == Pad

SpecPad == InitPad /\ [][NextPad]_vars

\* the passes that pad with a fill value somewhere
FillingPasses ==
    {p \in PadPasses : /\ p.single_mode = "constant"
                       /\ \E a \in DOMAIN p.pad_width : p.pad_width[a] # <<0, 0>>}

\* C4 as stated: whatever the modes and fill values of the spec, every order
\* of its single-mode, single-constant passes gives the same padded tensor.
C4_AnyOrder ==
    (op = "pad" /\ ret.kind # "pending")
    => \A passes \in Orderings(PadPasses) : apply_passes(args.value, passes) = ret

\* C4 amended: every order of the passes gives the same padded tensor when at
\* most one pass pads with a fill value (two constant passes with different
\* fill values on different axes both claim the corner cells).
C4_AnyOrderOneFill ==
    (op = "pad" /\ ret.kind # "pending" /\ Cardinality(FillingPasses) <= 1)
    => \A passes \in Orderings(PadPasses) : apply_passes(args.value, passes) = ret

\* a pad of one constant pass and one pass of another mode, on different axes, has returned
C4_Witness ==
    /\ op = "pad" /\ IsReturn(ret)
    /\ Cardinality(PadPasses) = 2 /\ Cardinality(FillingPasses) = 1
    /\ \A a \in 2..3 : args.pad_width[a][1] > 0 /\ args.pad_width[a][2] > 0

\* value padded by symmetric reflection with the widths pad_width
SymmetricReflection(value, pad_width) ==
    LET n == ndims(value)
    IN NdTensor([a \in 1..n |-> value.shape[a] + pad_width[a][1] + pad_width[a][2]],
                LAMBDA ix :
                    value.at[[a \in 1..n |->
                        LET src == ix[a] - pad_width[a][1]
                        IN IF src < 0 THEN -1 - src
                           ELSE IF src >= value.shape[a] THEN 2 * value.shape[a] - 1 - src
                           ELSE src]])

\* pad_width with the widths of the batch and channel axes set to [0, 0]
SpatialOnly(pad_width) ==
    [a \in DOMAIN pad_width |-> IF a = 1 \/ a = Len(pad_width) THEN <<0, 0>> ELSE pad_width[a]]

SymmetricPass == op = "pad" /\ \A a \in DOMAIN args.mode : args.mode[a] = "symmetric"

RemoveAt(s, k) == SubSeq(s, 1, k - 1) \o SubSeq(s, k + 1, Len(s))

InsertAt(s, k, v) == SubSeq(s, 1, k - 1) \o <<v>> \o SubSeq(s, k, Len(s))

Scalar(v) == NdTensor(<<>>, LAMBDA ix : v)

\* Tensor.long() of a tensor of integers
long(x) == NdTensor(x.shape, LAMBDA ix : x.at[ix])

\* unstack(tensor, axis): torch.unbind, the slices of the tensor along the axis
unstack(tensor, axis) ==
    LET a == Axis(axis, ndims(tensor)) + 1
    IN [j \in 1..tensor.shape[a] |->
           NdTensor(RemoveAt(tensor.shape, a), LAMBDA ix : tensor.at[InsertAt(ix, a, j - 1)])]

\* tensor[k] for a Python int k
select(tensor, k) == unstack(tensor, 0)[k + 1]

\* stack(values, axis=0): torch.stack of tensors of one shape
stack(values) ==
    NdTensor(<<Len(values)>> \o values[1].shape, LAMBDA ix : values[ix[1] + 1].at[Tail(ix)])

\* values[index_list]: indexing with a list of index tensors, one per leading
\* axis of values, all of one shape or of rank 0 (which broadcast)
index_with(values, index_list) ==
    LET k == Len(index_list)
        widest == CHOOSE m \in DOMAIN index_list :
                      \A j \in DOMAIN index_list : ndims(index_list[j]) <= ndims(index_list[m])
        S == index_list[widest].shape
    IN NdTensor(S \o SubSeq(values.shape, k + 1, ndims(values)),
                LAMBDA ix :
                    values.at[[m \in 1..k |->
                                  IF index_list[m].shape = <<>> THEN index_list[m].at[<<>>]
                                  ELSE index_list[m].at[SubSeq(ix, 1, Len(S))]]
                              \o SubSeq(ix, Len(S) + 1, Len(ix))])

\* combined_dim(dim1, dim2) of two equal sizes
combined_dim(dim1, dim2) == dim1

\* the slip of indexing every batch element into the whole of values
gather_nd_no_batch_axis(values_in, indices_in, batch_dims) ==
    LET values == values_in
        indices == long(indices_in)
    IN IF batch_dims = 0
       THEN Return(index_with(values, unstack(indices, -1)))
       ELSE IF batch_dims = 1
       THEN LET batch_size == combined_dim(values.shape[1], indices.shape[1])
            IN Return(stack([b \in 1..batch_size |->
                                index_with(values, unstack(select(indices, b - 1), -1))]))
       ELSE Raise("NotImplementedError")

gather_nd(values_in, indices_in, batch_dims) ==
    LET values == values_in
        indices == long(indices_in)
    IN IF batch_dims = 0
       THEN Return(index_with(values, unstack(indices, -1)))
       ELSE IF batch_dims = 1
       THEN LET batch_size == combined_dim(values.shape[1], indices.shape[1])
            IN Return(stack([b \in 1..batch_size |->
                                index_with(values, <<Scalar(b - 1)>>
                                                   \o unstack(select(indices, b - 1), -1))]))
       ELSE Raise("NotImplementedError")

(***************************************************************************)
(* A gather_nd call.  Without batch axis values has shape (2, 3) and       *)
(* indices holds points of 1 or 2 coordinates; with batch_dims = 1 both    *)
(* have a leading batch axis of size 2.  Every coordinate is inside the    *)
(* axis it indexes.                                                        *)
(***************************************************************************)
\* most points per indices tensor (per batch element)
MaxPoints == 2

GatherShape == <<2, 3>>

\* the points of k coordinates inside GatherShape
Points(k) == {p \in [1..k -> 0..2] : \A c \in 1..k : p[c] < GatherShape[c]}

\* the indices tensor of shape (m, k) that holds the given points
PointTensor(points) ==
    NdTensor(<<Len(points), Len(points[1])>>, LAMBDA ix : points[ix[1] + 1][ix[2] + 1])

\* gather_nd(values, indices) of points, and with another batch_dims
GatherArgs(ps) ==
    {[values |-> Iota(GatherShape), indices |-> PointTensor(ps), batch_dims |-> b] :
        b \in {0, 2, -1}}

\* gather_nd(values, indices, batch_dims=1) of two batch elements
BatchedGatherArgs(ps, qs) ==
    [values |-> Iota(<<2>> \o GatherShape),
     indices |-> stack(<<PointTensor(ps), PointTensor(qs)>>), batch_dims |-> 1]

InitGather ==
    /\ precision = None
    /\ op = "gather_nd"
    /\ \E m \in 1..MaxPoints, k \in 1..2 :
           \E ps \in [1..m -> Points(k)] :
               \/ args \in GatherArgs(ps)
               \/ \E qs \in [1..m -> Points(k)] : args = BatchedGatherArgs(ps, qs)
    /\ ret = Pending
    /\ LoopIdle
    /\ self = None

GatherNd ==
    /\ op = "gather_nd" /\ ret = Pending
    /\ ret' = gather_nd(args.values, args.indices, args.batch_dims)
    /\ UNCHANGED <<self, precision, op, args, pc, i, loop_vars, evals>>

NextGather == GatherNd

SpecGather == InitGather /\ [][NextGather]_vars

\* the coordinate tuple that indices holds at a position of its leading axes
PointAt(indices, pos) ==
    [c \in 1..indices.shape[ndims(indices)] |-> indices.at[pos \o <<c - 1>>]]

\* C7: with batch_dims = 0 the result holds, for every position of the leading
\* axes of indices, values at the coordinate tuple stored there; with
\* batch_dims = 1 element b of the result is values[b] at the coordinate tuples
\* of indices[b], in batch order; every other batch_dims raises
\* NotImplementedError.
C7_GatherNd ==
    (op = "gather_nd" /\ ret.kind # "pending")
    => LET v == args.values
           ind == args.indices
           lead == SubSeq(ind.shape, 1, ndims(ind) - 1)
           k == ind.shape[ndims(ind)]
       IN CASE args.batch_dims = 0 ->
                 ret = Return(NdTensor(lead \o SubSeq(v.shape, k + 1, ndims(v)),
                                  LAMBDA ix : v.at[PointAt(ind, SubSeq(ix, 1, Len(lead)))
                                                   \o SubSeq(ix, Len(lead) + 1, Len(ix))]))
            [] args.batch_dims = 1 ->
                 ret = Return(NdTensor(lead \o SubSeq(v.shape, k + 2, ndims(v)),
                                  LAMBDA ix : v.at[<<ix[1]>>
                                                   \o PointAt(ind, SubSeq(ix, 1, Len(lead)))
                                                   \o SubSeq(ix, Len(lead) + 1, Len(ix))]))
            [] OTHER -> ret = Raise("NotImplementedError")

\* a batched gather whose two batch elements hold different points has returned
C7_Witness ==
    /\ op = "gather_nd" /\ IsReturn(ret) /\ args.batch_dims = 1
    /\ select(args.indices, 0) # select(args.indices, 1)

(***************************************************************************)
(* conv.  The model follows shapes: the tensor and the kernel are tensors  *)
(* of zeros and the result carries the shape that torch's convolution      *)
(* gives, or the error it raises.                                          *)
(***************************************************************************)
Zeros(shape) == NdTensor(shape, LAMBDA ix : 0)

\* padding.lower()
lower(padding) ==
    CASE padding = "SAME" -> "same"
      [] padding = "VALID" -> "valid"
      [] OTHER -> padding

\* sum([[d // 2, (d + 1) // 2] for d in shape], []) over the kernel's shape
same_padding(shape) == Flatten([a \in 1..Len(shape) |-> <<shape[a] \div 2, (shape[a] + 1) \div 2>>])

\* torch.nn.functional.conv1d/2d/3d(input, weight, padding=padding): input is
\* (N, C, spatial...), weight is (O, C, kernel...), padding is an int or one
\* int per spatial axis, put on both sides of the axis; the model tags the
\* padding as <<"int", p>> or <<"list", ps>>
torch_conv(input, weight, padding) ==
    LET n == ndims(input) - 2
        pad == IF padding[1] = "int" THEN [a \in 1..n |-> padding[2]]
               ELSE IF Len(padding[2]) = 1 THEN [a \in 1..n |-> padding[2][1]]
               ELSE padding[2]
        out == [a \in 1..n |-> input.shape[a + 2] + 2 * pad[a] - weight.shape[a + 2] + 1]
    IN IF ndims(weight) # ndims(input) THEN Raise("RuntimeError")
       ELSE IF Len(pad) # n THEN Raise("RuntimeError")
       ELSE IF weight.shape[2] # input.shape[2] THEN Raise("RuntimeError")
       ELSE IF \E a \in 1..n : out[a] < 1 THEN Raise("RuntimeError")
       ELSE Return(Zeros(<<input.shape[1], weight.shape[1]>> \o out))

conv(tensor_in, kernel_in, padding_in) ==
    LET tensor == channels_first(tensor_in)
        kernel == permute(kernel_in, <<-2, -1>> \o PyRange(0, ndims(kernel_in) - 2))
    IN IF lower(padding_in) \notin {"valid", "same"} THEN Raise("ValueError")
       ELSE IF ndims(tensor) \notin {3, 4, 5} THEN Raise("KeyError")
       ELSE LET padding == IF lower(padding_in) = "valid" THEN <<"int", 0>>
                           ELSE <<"list", same_padding(kernel_in.shape)>>
                result == torch_conv(tensor, kernel, padding)
            IN IF IsRaise(result) THEN result
               ELSE Return(channels_last(result.value))

(***************************************************************************)
(* A conv call on a tensor (1, spatial..., channels) with one or two       *)
(* spatial axes and a kernel (spatial..., in, out).                        *)
(***************************************************************************)
\* largest kernel extent
MaxKernel == 3

\* largest spatial extent of the tensor
MaxSpatial == 4

\* most channels
MaxChannels == 2

Paddings == {"same", "SAME", "valid", "full"}

InitConv ==
    /\ precision = None
    /\ op = "conv"
    /\ \E n \in 1..2 :
           \E size \in [1..n -> MaxKernel..MaxSpatial], extent \in [1..n -> 1..MaxKernel],
              c \in 1..MaxChannels, cin \in 1..MaxChannels, cout \in 1..MaxChannels,
              p \in Paddings :
               args = [tensor |-> Zeros(<<1>> \o size \o <<c>>),
                       kernel |-> Zeros(extent \o <<cin, cout>>),
                       padding |-> p]
    /\ ret = Pending
    /\ LoopIdle
    /\ self = None

Conv ==
    /\ op = "conv" /\ ret = Pending
    /\ ret' = conv(args.tensor, args.kernel, args.padding)
    /\ UNCHANGED <<self, precision, op, args, pc, i, loop_vars, evals>>

NextConv == Conv

SpecConv == InitConv /\ [][NextConv]_vars

\* the spatial extents of a tensor (batch, spatial..., channels)
Spatial(x) == SubSeq(x.shape, 2, ndims(x) - 1)

\* C6: with padding 'same' (in any case) and matching channel counts the
\* convolution pads every spatial axis by its kernel extent d minus one in
\* total, d // 2 before and the remainder after, and returns a tensor with the
\* spatial extents of the input.
C6_SamePadding ==
    (/\ op = "conv" /\ ret.kind # "pending"
     /\ lower(args.padding) = "same"
     /\ args.kernel.shape[ndims(args.kernel) - 1] = args.tensor.shape[ndims(args.tensor)]
     /\ args.kernel.shape[ndims(args.kernel)] = args.tensor.shape[ndims(args.tensor)])
    => LET pads == same_padding(args.kernel.shape)
       IN /\ \A a \in 1..(ndims(args.tensor) - 2) :
                 /\ pads[2 * a - 1] = args.kernel.shape[a] \div 2
                 /\ pads[2 * a - 1] + pads[2 * a] = args.kernel.shape[a] - 1
          /\ IsReturn(ret)
          /\ Spatial(ret.value) = Spatial(args.tensor)

(***************************************************************************)
(* resample.  An assert statement that fails raises AssertionError.  The   *)
(* grid-sampling routine is imported; the model keeps the call it receives *)
(* as the value it returns.                                                *)
(***************************************************************************)
general_grid_sample_nd(inputs, sample_coords, boundary, constant_values) ==
    Return([routine |-> "general_grid_sample_nd", inputs |-> inputs,
            sample_coords |-> sample_coords, boundary |-> boundary,
            constant_values |-> constant_values])

\* the slip of leaving out the second assert
resample_any_constant(inputs, sample_coords, interpolation, boundary, constant_values) ==
    IF interpolation # "linear" THEN Raise("AssertionError")
    ELSE general_grid_sample_nd(inputs, sample_coords, boundary, constant_values)

resample(inputs, sample_coords, interpolation, boundary, constant_values) ==
    IF interpolation # "linear" THEN Raise("AssertionError")
    ELSE IF constant_values # 0 THEN Raise("AssertionError")
    ELSE general_grid_sample_nd(inputs, sample_coords, boundary, constant_values)

(***************************************************************************)
(* A resample call on a grid (1, n, 1) at one coordinate of the grid.      *)
(***************************************************************************)
\* largest grid extent
MaxGrid == 2

Interpolations == {"linear", "nearest", "Linear"}

Boundaries == {"constant", "replicate", "circular", "zero"}

ConstantValues == {0, 1, -1}

InitResample ==
    /\ precision = None
    /\ op = "resample"
    /\ \E n \in 1..MaxGrid, c \in 0..(MaxGrid - 1), ip \in Interpolations,
          b \in Boundaries, cv \in ConstantValues :
           /\ c < n
           /\ args = [inputs |-> Iota(<<1, n, 1>>),
                      sample_coords |-> NdTensor(<<1, 1, 1>>, LAMBDA ix : c),
                      interpolation |-> ip, boundary |-> b, constant_values |-> cv]
    /\ ret = Pending
    /\ LoopIdle
    /\ self = None

Resample ==
    /\ op = "resample" /\ ret = Pending
    /\ ret' = resample(args.inputs, args.sample_coords, args.interpolation, args.boundary,
                       args.constant_values)
    /\ UNCHANGED <<self, precision, op, args, pc, i, loop_vars, evals>>

NextResample == Resample

SpecResample == InitResample /\ [][NextResample]_vars

\* the call reached the grid-sampling routine
Sampled == IsReturn(ret) /\ ret.value.routine = "general_grid_sample_nd"

\* C11: whatever the boundary, a resample call whose interpolation is not
\* 'linear' or whose constant_values is not 0 raises AssertionError and does
\* not reach the grid-sampling routine; a call with interpolation 'linear' and
\* constant_values 0 reaches it with the call's inputs, coordinates and boundary.
C11_ResampleRejects ==
    (op = "resample" /\ ret.kind # "pending")
    => IF args.interpolation = "linear" /\ args.constant_values = 0
       THEN /\ Sampled
            /\ ret.value.inputs = args.inputs
            /\ ret.value.sample_coords = args.sample_coords
            /\ ret.value.boundary = args.boundary
       ELSE ret = Raise("AssertionError")

\* a linear resample with a non-zero fill value has been rejected
C11_Witness ==
    /\ op = "resample" /\ IsRaise(ret)
    /\ args.interpolation = "linear" /\ args.constant_values # 0

(***************************************************************************)
(* matmul and the operations the binding does not implement.  A sparse     *)
(* tensor is what sparse_tensor builds: a float32 matrix given by a list   *)
(* of positions and a list of values, where values at one position add up. *)
(* Matrix entries are small integers, which float32 holds exactly.         *)
(***************************************************************************)
RECURSIVE SeqSum(_)
SeqSum(s) == IF s = <<>> THEN 0 ELSE Head(s) + SeqSum(Tail(s))

\* sparse_tensor(indices, values, shape): torch.sparse.FloatTensor(indices_, values_, shape)
sparse_tensor(indices, values, shape) ==
    [layout |-> "sparse", shape |-> shape, indices |-> indices, values |-> values]

\* isinstance(A, torch.sparse.FloatTensor)
is_sparse_float(A) == "layout" \in DOMAIN A /\ A.layout = "sparse"

\* the entry of a sparse matrix at a position
sparse_at(A, ix) ==
    SeqSum([k \in DOMAIN A.indices |-> IF A.indices[k] = ix THEN A.values[k] ELSE 0])

\* torch.transpose(x, 0, 1) of a matrix
transpose(x) == permute(x, <<1, 0>>)

\* torch.sparse.mm(A, B): the product of a sparse and a dense matrix
sparse_mm(A, B) ==
    IF A.shape[2] # B.shape[1] THEN Raise("RuntimeError")
    ELSE Return(NdTensor(<<A.shape[1], B.shape[2]>>,
                    LAMBDA ix : SeqSum([k \in 1..A.shape[2] |->
                                           sparse_at(A, <<ix[1], k - 1>>) * B.at[<<k - 1, ix[2]>>]])))

\* the slip of multiplying whatever the left operand is
matmul_generic_fallback(A, b) ==
    LET left == IF is_sparse_float(A) THEN A
                ELSE sparse_tensor([k \in 1..Cardinality(DOMAIN A.at) |->
                                       CHOOSE ix \in DOMAIN A.at : RowMajor(ix, A.shape) = k - 1],
                                   [k \in 1..Cardinality(DOMAIN A.at) |->
                                       A.at[CHOOSE ix \in DOMAIN A.at : RowMajor(ix, A.shape) = k - 1]],
                                   A.shape)
        result == sparse_mm(left, transpose(b))
    IN IF IsRaise(result) THEN result ELSE Return(transpose(result.value))

matmul(A, b) ==
    IF is_sparse_float(A)
    THEN LET result == sparse_mm(A, transpose(b))
         IN IF IsRaise(result) THEN result ELSE Return(transpose(result.value))
    ELSE Raise("NotImplementedError")

gather(values, indices) == Raise("NotImplementedError")

scatter(points, indices, values, shape, duplicates_handling) == Raise("NotImplementedError")

py_func(func, inputs, Tout, shape_out) == Raise("NotImplementedError")

(***************************************************************************)
(* A call of matmul, gather, scatter or py_func.  The left operand of      *)
(* matmul is a 2 x 2 matrix, sparse with up to MaxNnz stored entries or    *)
(* dense; the right operand holds one or two rows of 2 entries, or one row *)
(* of 3 entries, which does not fit the left operand.                      *)
(***************************************************************************)
\* most stored entries of a sparse matrix
MaxNnz == 2

MatrixShape == <<2, 2>>

\* a stored entry: its position and its value
SparseEntries == Indices(MatrixShape) \X {1, 2}

DenseMatrices == {Iota(MatrixShape), Zeros(MatrixShape)}

RightShapes == {<<1, 2>>, <<2, 2>>, <<1, 3>>}

DuplicatesHandlings == {"undefined", "add", "mean"}

InitUnsupported ==
    /\ precision = None
    /\ \/ /\ op = "matmul"
          /\ \E shape \in RightShapes :
                 \E f \in [Indices(shape) -> 0..1] :
                     \/ \E es \in SeqsUpTo(SparseEntries, MaxNnz) :
                            args = [A |-> sparse_tensor([k \in DOMAIN es |-> es[k][1]],
                                                        [k \in DOMAIN es |-> es[k][2]],
                                                        MatrixShape),
                                    b |-> [shape |-> shape, at |-> f]]
                     \/ \E A \in DenseMatrices : args = [A |-> A, b |-> [shape |-> shape, at |-> f]]
       \/ /\ op = "gather"
          /\ \E ps \in [1..1 -> Points(1)] :
                 args = [values |-> Iota(GatherShape), indices |-> PointTensor(ps)]
       \/ /\ op = "scatter"
          /\ \E ps \in [1..1 -> Points(2)], d \in DuplicatesHandlings :
                 args = [points |-> PointTensor(ps), indices |-> PointTensor(ps),
                         values |-> Iota(<<1>>), shape |-> GatherShape,
                         duplicates_handling |-> d]
       \/ /\ op = "py_func"
          /\ \E x \in DenseMatrices :
                 args = [func |-> "func", inputs |-> <<x>>, Tout |-> "float32",
                         shape_out |-> x.shape]
    /\ ret = Pending
    /\ LoopIdle
    /\ self = None

Matmul ==
    /\ op = "matmul" /\ ret = Pending
    /\ ret' = matmul(args.A, args.b)
    /\ UNCHANGED <<self, precision, op, args, pc, i, loop_vars, evals>>

Gather ==
    /\ op = "gather" /\ ret = Pending
    /\ ret' = gather(args.values, args.indices)
    /\ UNCHANGED <<self, precision, op, args, pc, i, loop_vars, evals>>

Scatter ==
    /\ op = "scatter" /\ ret = Pending
    /\ ret' = scatter(args.points, args.indices, args.values, args.shape, args.duplicates_handling)
    /\ UNCHANGED <<self, precision, op, args, pc, i, loop_vars, evals>>

PyFunc ==
    /\ op = "py_func" /\ ret = Pending
    /\ ret' = py_func(args.func, args.inputs, args.Tout, args.shape_out)
    /\ UNCHANGED <<self, precision, op, args, pc, i, loop_vars, evals>>

NextUnsupported == Matmul \/ Gather \/ Scatter \/ PyFunc

SpecUnsupported == InitUnsupported /\ [][NextUnsupported]_vars

\* the error kinds of value, type-resolution, configuration and parameter errors
OtherErrorKinds == {"ValueError", "KeyError", "IndexError", "AttributeError", "AssertionError"}

\* the product b A^T of a dense b with a sparse matrix A, entry by entry
SparseDenseProduct(A, b) ==
    NdTensor(<<b.shape[1], A.shape[1]>>,
             LAMBDA ix : SeqSum([k \in 1..A.shape[2] |->
                                    SeqSum([e \in DOMAIN A.indices |->
                                               IF A.indices[e] = <<ix[2], k - 1>>
                                               THEN A.values[e] ELSE 0])
                                    * b.at[<<ix[1], k - 1>>]]))

\* a matmul whose left operand is a sparse tensor
SparseLeft == op = "matmul" /\ "layout" \in DOMAIN args.A

\* C12: gather, scatter and py_func, and matmul with a left operand that is
\* not sparse, raise NotImplementedError, which is none of the error kinds of
\* value, type-resolution, configuration and parameter errors, and return
\* nothing; matmul with a sparse left operand that fits the right operand
\* returns their product.
C12_Unsupported ==
    (op \in {"matmul", "gather", "scatter", "py_func"} /\ ret.kind # "pending")
    => IF SparseLeft
       THEN args.b.shape[2] = args.A.shape[2] => ret = Return(SparseDenseProduct(args.A, args.b))
       ELSE /\ ret = Raise("NotImplementedError")
            /\ ret.exc \notin OtherErrorKinds

\* a matmul with a dense left operand that fits the right operand has been refused
C12_Witness ==
    /\ op = "matmul" /\ IsRaise(ret)
    /\ args.A \in DenseMatrices /\ args.b.shape[2] = args.A.shape[2]

(***************************************************************************)
(* The TensorFlow data pipeline (src/phi/tf/data.py).                      *)
(*                                                                         *)
(* concat_datasets.  A tf.data.Dataset is modelled by the examples it      *)
(* yields, in order, and by the nesting depth of the concatenations it is  *)
(* built from.                                                             *)
(***************************************************************************)
\* a source dataset that yields the given examples
TfDataset(examples) == [examples |-> examples, depth |-> 0]

\* tf.data.Dataset.concatenate(dataset_1, dataset_2)
concatenate(dataset_1, dataset_2) ==
    [examples |-> dataset_1.examples \o dataset_2.examples,
     depth |-> 1 + Max(dataset_1.depth, dataset_2.depth)]

\* the slip of splitting off one dataset at a time
RECURSIVE concat_datasets_chained(_)
concat_datasets_chained(datasets) ==
    IF ~(Len(datasets) > 0) THEN Raise("AssertionError")
    ELSE IF Len(datasets) = 1 THEN Return(datasets[1])
    ELSE LET center == 1
             dataset_1 == concat_datasets_chained(SubSeq(datasets, 1, center))
             dataset_2 == concat_datasets_chained(SubSeq(datasets, center + 1, Len(datasets)))
         IN Return(concatenate(dataset_1.value, dataset_2.value))

RECURSIVE concat_datasets(_)
concat_datasets(datasets) ==
    IF ~(Len(datasets) > 0) THEN Raise("AssertionError")
    ELSE IF Len(datasets) = 1 THEN Return(datasets[1])
    ELSE LET center == Len(datasets) \div 2
             dataset_1 == concat_datasets(SubSeq(datasets, 1, center))
             dataset_2 == concat_datasets(SubSeq(datasets, center + 1, Len(datasets)))
         IN Return(concatenate(dataset_1.value, dataset_2.value))

(***************************************************************************)
(* A concat_datasets call on a list of up to MaxDatasets source datasets;  *)
(* dataset k yields up to MaxExamples examples <<k, 1>>, <<k, 2>>, ...     *)
(***************************************************************************)
\* most datasets in the list
MaxDatasets == 5

\* most examples of one dataset
MaxExamples == 2

\* the examples of dataset k, which yields n examples
ExamplesOf(k, n) == [j \in 1..n |-> <<k, j>>]

InitConcat ==
    /\ precision = None
    /\ op = "concat_datasets"
    /\ \E n \in 0..MaxDatasets :
           \E lengths \in [1..n -> 0..MaxExamples] :
               args = [datasets |-> [k \in 1..n |-> TfDataset(ExamplesOf(k, lengths[k]))]]
    /\ ret = Pending
    /\ LoopIdle
    /\ self = None

ConcatDatasets ==
    /\ op = "concat_datasets" /\ ret = Pending
    /\ ret' = concat_datasets(args.datasets)
    /\ UNCHANGED <<self, precision, op, args, pc, i, loop_vars, evals>>

NextConcat == ConcatDatasets

SpecConcat == InitConcat /\ [][NextConcat]_vars

\* naive left-to-right concatenation of the examples of a list of datasets
RECURSIVE NaiveConcat(_)
NaiveConcat(datasets) ==
    IF datasets = <<>> THEN <<>>
    ELSE NaiveConcat(SubSeq(datasets, 1, Len(datasets) - 1)) \o datasets[Len(datasets)].examples

\* the least k with 2^k >= n
CeilLog2(n) == CHOOSE k \in 0..n : Pow2(k) >= n /\ \A j \in 0..(k - 1) : Pow2(j) < n

\* C13: for a non-empty list of N datasets concat_datasets returns a dataset
\* that yields the examples in the order of naive left-to-right concatenation
\* and whose concatenations nest at most ceil(log2 N) deep.
C13_ConcatOrder ==
    (op = "concat_datasets" /\ ret.kind # "pending" /\ Len(args.datasets) > 0)
    => /\ IsReturn(ret)
       /\ ret.value.examples = NaiveConcat(args.datasets)
       /\ ret.value.depth <= CeilLog2(Len(args.datasets))

\* a list of five datasets, each with examples, has been concatenated
C13_Witness ==
    /\ op = "concat_datasets" /\ IsReturn(ret)
    /\ Len(args.datasets) = 5
    /\ \A k \in DOMAIN args.datasets : args.datasets[k].examples # <<>>

(***************************************************************************)
(* DataLoader.set_data.  Python values are records that carry their class; *)
(* a field that no statement has assigned yet holds Unset.  What a method  *)
(* does is the pair of the object's fields afterwards and the outcome of   *)
(* the call; a failed assert leaves the fields as they were.               *)
(***************************************************************************)
NoneValue == [class |-> "NoneType"]

Unset == [class |-> "unset"]

Bool(b) == [class |-> "bool", value |-> b]

Str(v) == [class |-> "str", value |-> v]

\* a phi.tf.data.Dataset, a value of another class, a dict with the given keys
DatasetObject(name) == [class |-> "Dataset", name |-> name]

ListObject == [class |-> "list"]

Dict(keys) == [class |-> "dict", keys |-> keys]

\* isinstance(x, Dataset)
isinstance_Dataset(x) == x.class = "Dataset"

is_None(x) == x.class = "NoneType"

\* lines 210-213, 216, 240: the pipeline that the content of dict selects
init_pipeline(fields, dict) ==
    IF ~is_None(dict) /\ "iterator_handle" \in dict.keys
    THEN [fields EXCEPT !._pipeline = Str("dataset_handle")]
    ELSE [fields EXCEPT !._pipeline = Str("placeholder")]

set_data(fields, dict, train, val) ==
    IF ~(isinstance_Dataset(train) \/ is_None(train)) THEN [self |-> fields, ret |-> Raise("AssertionError")]
    ELSE IF ~(isinstance_Dataset(val) \/ is_None(train)) THEN [self |-> fields, ret |-> Raise("AssertionError")]
    ELSE IF (~is_None(train) \/ ~is_None(val)) /\ is_None(dict)
    THEN [self |-> fields, ret |-> Raise("AssertionError")]
    ELSE LET viewed == IF ~is_None(train) /\ ~is_None(val)
                       THEN [fields EXCEPT !.value_view_training_data = Bool(FALSE)]
                       ELSE fields
             stored == [viewed EXCEPT !._training_set = train, !._validation_set = val]
         IN [self |-> init_pipeline(stored, dict), ret |-> Return(NoneValue)]

(***************************************************************************)
(* A DataLoader on which set_data is called again and again, each time     *)
(* with any dict, train and val.                                           *)
(***************************************************************************)
DataValues == {NoneValue, DatasetObject("a"), DatasetObject("b"), ListObject}

DictValues == {NoneValue, Dict({"placeholder"}),
               Dict({"names", "iterator_handle", "shapes", "dtypes", "frames"})}

\* DataLoader(): __init__ assigns nothing
InitLoader ==
    /\ precision = None
    /\ op = "DataLoader"
    /\ args = <<>>
    /\ ret = Return(NoneValue)
    /\ LoopIdle
    /\ self = [class |-> "DataLoader", _training_set |-> Unset, _validation_set |-> Unset,
               value_view_training_data |-> Unset, _pipeline |-> Unset]

SetData ==
    \E dict \in DictValues, train \in DataValues, val \in DataValues :
        LET after == set_data(self, dict, train, val)
        IN /\ op' = "set_data"
           /\ args' = [dict |-> dict, train |-> train, val |-> val]
           /\ ret' = after.ret
           /\ self' = after.self
           /\ UNCHANGED <<precision, pc, i, loop_vars, evals>>

NextLoader == SetData

SpecLoader == InitLoader /\ [][NextLoader]_vars

\* train and val are each None or a Dataset, and dict is given when one of them is
ValidSetData ==
    /\ isinstance_Dataset(args.train) \/ is_None(args.train)
    /\ isinstance_Dataset(args.val) \/ is_None(args.val)
    /\ (~is_None(args.train) \/ ~is_None(args.val)) => ~is_None(args.dict)

\* C14: a set_data call in which train and val are each None or a Dataset
\* (and dict is given when one of them is) passes the argument checks and
\* stores train as the training set and val as the validation set; a call
\* with a train or val that is neither None nor a Dataset is rejected.
C14_SetData ==
    op = "set_data"
    => /\ ValidSetData
          => /\ IsReturn(ret)
             /\ self._training_set = args.train
             /\ self._validation_set = args.val
       /\ (\E x \in {args.train, args.val} : ~isinstance_Dataset(x) /\ ~is_None(x))
          => ret = Raise("AssertionError")

(***************************************************************************)
(* create_dataset, stacked_window and _example_count.  An optional integer *)
(* argument is <<>> for None and <<k>> for k.                              *)
(***************************************************************************)
\* _example_count(length, frames, inner_stride, outer_stride); // is floor division
example_count(length, frames, inner_stride, outer_stride) ==
    IF frames = <<>> THEN length
    ELSE (frames[1] - (frames[1] * inner_stride - 1)) \div outer_stride

\* dataset.window(size, shift, stride, drop_remainder=True): window w starts at
\* element w * shift and takes every stride-th element; windows short of size
\* elements are dropped
window(dataset, size, shift, stride) ==
    LET n == Len(dataset.examples)
        starts == {w \in 0..n : w * shift + (size - 1) * stride < n}
    IN [examples |-> [w \in 1..Cardinality(starts) |->
                         [j \in 1..size |-> dataset.examples[(w - 1) * shift + (j - 1) * stride + 1]]],
        depth |-> dataset.depth]

\* dataset.flat_map(lambda x: x)
flat_map(dataset) == [examples |-> Flatten(dataset.examples), depth |-> dataset.depth]

\* dataset.batch(size): groups of size elements, the last one shorter if need be
batch(dataset, size) ==
    LET n == Len(dataset.examples)
    IN [examples |-> [g \in 1..((n + size - 1) \div size) |->
                         SubSeq(dataset.examples, (g - 1) * size + 1, Min(g * size, n))],
        depth |-> dataset.depth]

stacked_window(dataset, size, outer_stride, inner_stride) ==
    batch(flat_map(window(dataset, size, outer_stride, inner_stride)), size)

\* dataset.map(read): every file list becomes the arrays read from it
map_read(dataset) ==
    [examples |-> [j \in DOMAIN dataset.examples |-> <<"arrays", dataset.examples[j]>>],
     depth |-> dataset.depth]

\* lines 67-75: the count and the dataset of every source; a source is the
\* list of its file lists
RECURSIVE source_datasets(_, _, _, _)
source_datasets(scene_sources, frames, inner_frame_stride, outer_frame_stride) ==
    IF scene_sources = <<>> THEN [count |-> 0, datasets |-> <<>>]
    ELSE LET n == Len(scene_sources)
             before == source_datasets(SubSeq(scene_sources, 1, n - 1), frames,
                                       inner_frame_stride, outer_frame_stride)
             nested_file_list == scene_sources[n]
             read == map_read(TfDataset(nested_file_list))
             dataset == IF frames # <<>>
                        THEN stacked_window(read, frames[1], outer_frame_stride, inner_frame_stride)
                        ELSE read
         IN [count |-> before.count + example_count(Len(nested_file_list), frames,
                                                    inner_frame_stride, outer_frame_stride),
             datasets |-> Append(before.datasets, dataset)]

\* create_dataset: the returned pipeline is the concatenated dataset, the
\* shuffle buffer (<<>> without shuffle), the batch size and the prefetch
create_dataset(scene_sources, batch_size, frames, shuffle, inner_frame_stride, outer_frame_stride, prefetch) ==
    LET per_source == source_datasets(scene_sources, frames, inner_frame_stride, outer_frame_stride)
        dataset == concat_datasets(per_source.datasets)
    IN IF IsRaise(dataset) THEN dataset
       ELSE Return([count |-> per_source.count,
                    dataset |-> dataset.value,
                    shuffle_buffer |-> IF shuffle THEN <<per_source.count>> ELSE <<>>,
                    batch_size |-> batch_size,
                    prefetch |-> prefetch])

(***************************************************************************)
(* A create_dataset call on one or two sources of up to MaxLength file     *)
(* lists each, without windows or with windows of up to MaxFrames frames.  *)
(***************************************************************************)
\* most sources
MaxSources == 2

\* most file lists of one source
MaxLength == 4

\* most frames of a window
MaxFrames == 3

\* largest stride
MaxStride == 2

InitCreate ==
    /\ precision = None
    /\ op = "create_dataset"
    /\ \E n \in 1..MaxSources :
           \E lengths \in [1..n -> 0..MaxLength],
              frames \in {<<>>} \cup {<<f>> : f \in 1..MaxFrames},
              inner \in 1..MaxStride, outer \in 1..MaxStride, shuffle \in BOOLEAN :
               args = [scene_sources |-> [k \in 1..n |-> ExamplesOf(k, lengths[k])],
                       batch_size |-> 1, frames |-> frames, shuffle |-> shuffle,
                       inner_frame_stride |-> inner, outer_frame_stride |-> outer,
                       prefetch |-> 2]
    /\ ret = Pending
    /\ LoopIdle
    /\ self = None

CreateDataset ==
    /\ op = "create_dataset" /\ ret = Pending
    /\ ret' = create_dataset(args.scene_sources, args.batch_size, args.frames, args.shuffle,
                             args.inner_frame_stride, args.outer_frame_stride, args.prefetch)
    /\ UNCHANGED <<self, precision, op, args, pc, i, loop_vars, evals>>

NextCreate == CreateDataset

SpecCreate == InitCreate /\ [][NextCreate]_vars

\* C15: the count that create_dataset accumulates equals the number of
\* examples the concatenated dataset yields (length per source without
\* frames, the number of complete windows otherwise), so a shuffle buffer of
\* that size holds the whole dataset.
C15_ExampleCount ==
    (op = "create_dataset" /\ IsReturn(ret))
    => /\ ret.value.count = Len(ret.value.dataset.examples)
       /\ args.shuffle => ret.value.shuffle_buffer = <<Len(ret.value.dataset.examples)>>

(***************************************************************************)
(* The Dataset builder.  A field that holds None or a value is <<>> or     *)
(* <<value>>.  A method gives the object's fields afterwards and the       *)
(* outcome of the call; "return self" returns those fields.                *)
(***************************************************************************)
\* a source: a SceneSource with its file lists, or a value of another class
SceneSource(files) == [class |-> "SceneSource", files |-> files]

\* Dataset.__init__(name, sources)
Dataset_init(name, sources) ==
    [name |-> name, sources |-> sources,
     shuffled |-> FALSE, prefetch_value |-> 1,
     inner_frame_stride |-> 1, outer_frame_stride |-> 1,
     batch_size |-> <<>>, tf_dataset |-> <<>>, iterator |-> <<>>, iterator_handle |-> <<>>]

\* the slip of leaving out the assert
Dataset_shuffle_unguarded(fields) ==
    LET after == [fields EXCEPT !.shuffled = TRUE]
    IN [self |-> after, ret |-> Return(after)]

Dataset_shuffle(fields) ==
    IF fields.tf_dataset # <<>> THEN [self |-> fields, ret |-> Raise("AssertionError")]
    ELSE LET after == [fields EXCEPT !.shuffled = TRUE]
         IN [self |-> after, ret |-> Return(after)]

Dataset_prefetch(fields, prefetch) ==
    IF fields.tf_dataset # <<>> THEN [self |-> fields, ret |-> Raise("AssertionError")]
    ELSE LET after == [fields EXCEPT !.prefetch_value = prefetch]
         IN [self |-> after, ret |-> Return(after)]

Dataset_batch(fields, batch_size) ==
    IF fields.tf_dataset # <<>> THEN [self |-> fields, ret |-> Raise("AssertionError")]
    ELSE LET after == [fields EXCEPT !.batch_size = <<batch_size>>]
         IN [self |-> after, ret |-> Return(after)]

\* Dataset.setup(names, shapes, dtypes, batch_size, frames); names, shapes and
\* dtypes do not bear on the fields
Dataset_setup(fields, batch_size_in, frames) ==
    IF \E k \in DOMAIN fields.sources : fields.sources[k].class # "SceneSource"
    THEN [self |-> fields, ret |-> Raise("AssertionError")]
    ELSE LET batch_size == IF batch_size_in # <<>> THEN batch_size_in[1]
                           ELSE IF fields.batch_size = <<>> THEN 1
                           ELSE fields.batch_size[1]
             built == create_dataset([k \in DOMAIN fields.sources |-> fields.sources[k].files],
                                     batch_size, frames, fields.shuffled,
                                     fields.inner_frame_stride, fields.outer_frame_stride,
                                     fields.prefetch_value)
         IN IF IsRaise(built) THEN [self |-> fields, ret |-> built]
            ELSE [self |-> [fields EXCEPT !.tf_dataset = <<built.value>>,
                                          !.iterator = <<"initializable_iterator">>],
                  ret |-> Return(NoneValue)]

(***************************************************************************)
(* A Dataset on which shuffle, prefetch, batch and setup are called in any *)
(* order, any number of times.                                             *)
(***************************************************************************)
\* largest prefetch argument
MaxPrefetch == 2

\* largest batch size
MaxBatch == 2

SourceLists == {<<>>,
                <<SceneSource(ExamplesOf(1, 2))>>,
                <<SceneSource(ExamplesOf(1, 2)), SceneSource(ExamplesOf(2, 1))>>,
                <<SceneSource(ExamplesOf(1, 2)), ListObject>>}

InitBuilder ==
    /\ precision = None
    /\ op = "Dataset"
    /\ \E sources \in SourceLists :
           /\ args = [name |-> "train", sources |-> sources]
           /\ self = Dataset_init("train", sources)
    /\ ret = Return(NoneValue)
    /\ LoopIdle

\* the call leaves the fields and the outcome that the method gives
Called(name, arguments, after) ==
    /\ op' = name
    /\ args' = arguments
    /\ self' = after.self
    /\ ret' = after.ret
    /\ UNCHANGED <<precision, pc, i, loop_vars, evals>>

Shuffle == Called("shuffle", <<>>, Dataset_shuffle(self))

Prefetch == \E n \in 1..MaxPrefetch : Called("prefetch", <<n>>, Dataset_prefetch(self, n))

Batch == \E n \in 1..MaxBatch : Called("batch", <<n>>, Dataset_batch(self, n))

Setup ==
    \E b \in {<<>>} \cup {<<n>> : n \in 1..MaxBatch}, frames \in {<<>>, <<2>>} :
        Called("setup", <<b, frames>>, Dataset_setup(self, b, frames))

NextBuilder == Shuffle \/ Prefetch \/ Batch \/ Setup

SpecBuilder == InitBuilder /\ [][NextBuilder]_vars

\* the fields that shuffle, prefetch and batch set
Configuration(fields) == <<fields.shuffled, fields.prefetch_value, fields.batch_size>>

\* the pipeline has been built
Built(fields) == fields.tf_dataset # <<>>

\* the step is a shuffle, prefetch or batch call that returns the dataset with its field set
Configures ==
    /\ IsReturn(ret') /\ ret'.value = self'
    /\ op' = "shuffle" => self'.shuffled
    /\ op' = "prefetch" => self'.prefetch_value = args'[1]
    /\ op' = "batch" => self'.batch_size = <<args'[1]>>

\* C16: a shuffle, prefetch or batch call succeeds, sets its field and returns
\* the dataset while no pipeline is built, and fails its assertion once setup
\* has built one; from then on no call changes shuffled, prefetch_value or
\* batch_size, and the pipeline stays built.
C16_BuilderFrozen ==
    /\ [][op' \in {"shuffle", "prefetch", "batch"}
          => IF Built(self) THEN ret' = Raise("AssertionError") ELSE Configures]_vars
    /\ [][Built(self) => Built(self') /\ Configuration(self') = Configuration(self)]_vars

\* a shuffle call on a built, unshuffled pipeline has failed its assertion
C16_Witness ==
    /\ op = "shuffle" /\ ret = Raise("AssertionError")
    /\ Built(self) /\ ~self.shuffled

=============================================================================
